---- MODULE Spec2Model ----
(***************************************************************************)
(* calver-auto-release: state-machine model of calver_auto_release.py.     *)
(*                                                                         *)
(* Strings are TLA+ strings used as sequences of characters (Len, \o,      *)
(* SubSeq).  The emoji of the program's literals are written as the  *)
(* ASCII placeholders ^rocket^, ^memo^, ^up^ and ^pray^.                   *)
(***************************************************************************)
EXTENDS Integers, Sequences, FiniteSets, TLC

(***************************************************************************)
(* Bounds of the model.                                                    *)
(***************************************************************************)
MaxCommits == 2
MaxTs == 2
MaxTags == 2
MaxTicks == 1
MaxSubjects == 3
MaxSeries == 3

(***************************************************************************)
(* Program constants.                                                      *)
(***************************************************************************)
DEFAULT_SKIP_PATTERNS == <<"[skip release]", "[pre-commit.ci]", "^up^ Update">>

DEFAULT_FOOTER == "\n\n^pray^ Thank you for using this project! Please report any issues or feedback on the GitHub repository."

(***************************************************************************)
(* Python string primitives.                                               *)
(***************************************************************************)
CharAt(s, i) == SubSeq(s, i, i)

\* pattern in s : literal, case-sensitive substring test
StrIn(pattern, s) ==
  \E i \in 1..(Len(s) + 1) :
     /\ i + Len(pattern) - 1 <= Len(s)
     /\ SubSeq(s, i, i + Len(pattern) - 1) = pattern

\* s.split(sep) for a one-character separator: always at least one piece
RECURSIVE StrSplit(_, _)
StrSplit(s, sep) ==
  IF \E i \in 1..Len(s) : CharAt(s, i) = sep
  THEN LET i == CHOOSE k \in 1..Len(s) :
                   /\ CharAt(s, k) = sep
                   /\ \A j \in 1..(k - 1) : CharAt(s, j) # sep
       IN  <<SubSeq(s, 1, i - 1)>> \o StrSplit(SubSeq(s, i + 1, Len(s)), sep)
  ELSE <<s>>

\* sep.join(parts)
RECURSIVE StrJoin(_, _)
StrJoin(sep, parts) ==
  IF Len(parts) = 0 THEN ""
  ELSE IF Len(parts) = 1 THEN parts[1]
  ELSE parts[1] \o sep \o StrJoin(sep, Tail(parts))

Digits == <<"0", "1", "2", "3", "4", "5", "6", "7", "8", "9">>

IsDigit(c) == \E d \in 1..10 : Digits[d] = c

DigitVal(c) == (CHOOSE d \in 1..10 : Digits[d] = c) - 1

\* str(n) / f"{n}" for a non-negative int
RECURSIVE IntToStr(_)
IntToStr(n) ==
  IF n < 10 THEN Digits[n + 1]
  ELSE IntToStr(n \div 10) \o Digits[(n % 10) + 1]

\* int(s) for a non-empty string of decimal digits
RECURSIVE StrToInt(_)
StrToInt(s) ==
  IF Len(s) = 1 THEN DigitVal(s)
  ELSE 10 * StrToInt(SubSeq(s, 1, Len(s) - 1)) + DigitVal(CharAt(s, Len(s)))

\* code point order of the characters that occur in tag names
CharOrd(c) ==
  IF c = "." THEN 46
  ELSE IF IsDigit(c) THEN 48 + DigitVal(c)
  ELSE IF c = "V" THEN 86
  ELSE IF c = "v" THEN 118
  ELSE IF c = "x" THEN 120
  ELSE 0

\* a < b for Python str (lexicographic by code point)
RECURSIVE StrLess(_, _)
StrLess(a, b) ==
  IF Len(b) = 0 THEN FALSE
  ELSE IF Len(a) = 0 THEN TRUE
  ELSE IF CharAt(a, 1) = CharAt(b, 1) THEN StrLess(Tail(a), Tail(b))
  ELSE CharOrd(CharAt(a, 1)) < CharOrd(CharAt(b, 1))

(***************************************************************************)
(* Optional arguments (None or a value) and Python's "x or default".       *)
(***************************************************************************)
None == [given |-> FALSE]

Some(x) == [given |-> TRUE, val |-> x]

\* x or default : None, "" and [] are falsy
PyOr(x, default) == IF x.given /\ Len(x.val) > 0 THEN x.val ELSE default

(***************************************************************************)
(* State.                                                                  *)
(*   commits : the linear history, oldest first; HEAD is the last one      *)
(*   tags    : the local tags, [name, commit, message]                     *)
(*   remote  : the tags on the remote 'origin'                             *)
(*   sink    : the lines of the GITHUB_OUTPUT file                         *)
(*   now     : the UTC date, [year, month]                                 *)
(*   gitenv  : GIT_AUTHOR_NAME / GIT_COMMITTER_NAME of os.environ          *)
(*   environ : the rest of os.environ: whether GITHUB_OUTPUT is set, and   *)
(*             the value of CALVER_DRY_RUN (None when unset)               *)
(*   origin_ok : a remote named 'origin' is configured (repo.remote finds  *)
(*             it and the push goes through); without it _push_tag raises  *)
(*   last    : the last operation, its inputs, its result, and the tags,   *)
(*             remote and sink it started from                             *)
(***************************************************************************)
VARIABLES commits, tags, remote, sink, now, gitenv, environ, origin_ok, last

vars == <<commits, tags, remote, sink, now, gitenv, environ, origin_ok, last>>

HEAD == Len(commits)

TagNamesOf(ts) == {t.name : t \in ts}

(***************************************************************************)
(* packaging.version.parse, on names over the characters 0-9 . v V x :     *)
(* an optional v, then dot-separated runs of digits; anything else raises  *)
(* InvalidVersion, a ValueError.  major, minor and micro are the first     *)
(* three release numbers, 0 when the release is shorter.                   *)
(***************************************************************************)
AllDigits(s) == Len(s) > 0 /\ \A j \in 1..Len(s) : IsDigit(CharAt(s, j))

version_parse(name) ==
  LET s == IF Len(name) > 0 /\ CharAt(name, 1) \in {"v", "V"} THEN Tail(name) ELSE name
      parts == StrSplit(s, ".")
  IN  IF \A i \in 1..Len(parts) : AllDigits(parts[i])
      THEN [ok |-> TRUE, release |-> [i \in 1..Len(parts) |-> StrToInt(parts[i])]]
      ELSE [ok |-> FALSE, release |-> <<>>]

ReleasePart(v, k) == IF Len(v.release) >= k THEN v.release[k] ELSE 0

major(v) == ReleasePart(v, 1)

minor(v) == ReleasePart(v, 2)

micro(v) == ReleasePart(v, 3)

(***************************************************************************)
(* repo.tags and max(repo.tags, key=commit.committed_datetime).            *)
(***************************************************************************)
\* repo.tags enumerates the tag references sorted by path
RECURSIVE repo_tags(_)
repo_tags(ts) ==
  IF ts = {} THEN <<>>
  ELSE LET t == CHOOSE t \in ts : \A u \in ts \ {t} : StrLess(t.name, u.name)
       IN  <<t>> \o repo_tags(ts \ {t})

committed_datetime(t) == commits[t.commit].ts

\* variant: a later element with an equal key replaces the best one
RECURSIVE MaxLoop_last_wins(_, _)
MaxLoop_last_wins(best, rest) ==
  IF Len(rest) = 0 THEN best
  ELSE MaxLoop_last_wins(IF committed_datetime(Head(rest)) >= committed_datetime(best)
                         THEN Head(rest) ELSE best,
                         Tail(rest))

\* the loop of max(): a later element replaces the best one only when its
\* key is strictly greater, so the first maximal element is returned
RECURSIVE MaxLoop(_, _)
MaxLoop(best, rest) ==
  IF Len(rest) = 0 THEN best
  ELSE MaxLoop(IF committed_datetime(Head(rest)) > committed_datetime(best)
               THEN Head(rest) ELSE best,
               Tail(rest))

\* max(repo.tags, key=...) ; the caller handles the empty case (ValueError)
latest_tag == LET seq == repo_tags(tags) IN MaxLoop(Head(seq), Tail(seq))

(***************************************************************************)
(* The helpers of create_release.                                          *)
(***************************************************************************)
\* variant: the tags at HEAD are never seen
is_already_tagged_never == FALSE

_is_already_tagged == \E t \in tags : t.commit = HEAD

\* variant: the patterns are searched in the whole message
should_skip_release_whole_message(skip_patterns) ==
  \E i \in 1..Len(skip_patterns) : StrIn(skip_patterns[i], commits[HEAD].message)

_should_skip_release(skip_patterns) ==
  LET commit_message == StrSplit(commits[HEAD].message, "\n")[1]
  IN  \E i \in 1..Len(skip_patterns) : StrIn(skip_patterns[i], commit_message)

\* variant: the month is written with two digits
FormatVersion_padded(year, month, patch) ==
  IntToStr(year) \o "." \o (IF month < 10 THEN "0" ELSE "") \o IntToStr(month)
    \o "." \o IntToStr(patch)

FormatVersion(year, month, patch) ==
  IntToStr(year) \o "." \o IntToStr(month) \o "." \o IntToStr(patch)

Returned(x) == [raised |-> FALSE, value |-> x]

Raised(e) == [raised |-> TRUE, value |-> e]

\* variant: the patch counter is continued across months
get_new_version_no_reset ==
  IF tags = {} \/ ~version_parse(latest_tag.name).ok
  THEN Returned(FormatVersion(now.year, now.month, 0))
  ELSE Returned(FormatVersion(now.year, now.month,
                              micro(version_parse(latest_tag.name)) + 1))

\* variant: only the ValueError of max() is caught
get_new_version_uncaught ==
  IF tags = {}
  THEN Returned(FormatVersion(now.year, now.month, 0))
  ELSE LET last_version == version_parse(latest_tag.name)
       IN  IF ~last_version.ok
           THEN Raised("InvalidVersion")
           ELSE Returned(FormatVersion(now.year, now.month,
                  IF /\ major(last_version) = now.year
                     /\ minor(last_version) = now.month
                  THEN micro(last_version) + 1 ELSE 0))

_get_new_version ==
  IF tags = {}
  THEN Returned(FormatVersion(now.year, now.month, 0))
  ELSE LET last_version == version_parse(latest_tag.name)
       IN  IF ~last_version.ok
           THEN Returned(FormatVersion(now.year, now.month, 0))
           ELSE LET patch == IF /\ major(last_version) = now.year
                                /\ minor(last_version) = now.month
                             THEN micro(last_version) + 1
                             ELSE 0
                IN  Returned(FormatVersion(now.year, now.month, patch))

\* %s of git log: the lines of the message before its first blank line,
\* joined with spaces
Subject(message) ==
  LET lines == StrSplit(message, "\n")
      n == IF \E i \in 1..Len(lines) : lines[i] = ""
           THEN (CHOOSE i \in 1..Len(lines) :
                    lines[i] = "" /\ \A j \in 1..(i - 1) : lines[j] # "") - 1
           ELSE Len(lines)
  IN  StrJoin(" ", SubSeq(lines, 1, n))

\* git log <from>..HEAD --pretty=format:%s on the linear history: the
\* commits after index from, most recent first, one subject per line
GitLog(from) ==
  StrJoin("\n", [i \in 1..(HEAD - from) |-> Subject(commits[HEAD - i + 1].message)])

_get_commit_messages_since_last_release ==
  IF tags = {} THEN GitLog(0) ELSE GitLog(latest_tag.commit)

_format_release_notes(commit_messages, new_version, footer) ==
  LET header == "^rocket^ Release " \o new_version \o "\n\n"
      intro == "^memo^ This release includes the following changes:\n\n"
      commit_list == StrSplit(commit_messages, "\n")
      formatted_commit_list == [i \in 1..Len(commit_list) |-> "- " \o commit_list[i]]
      commit_section == StrJoin("\n", formatted_commit_list)
  IN  header \o intro \o commit_section \o footer

_set_author == commits[HEAD].author

\* variant: the tag message is the notes alone
TagMessage_notes_only(new_version, release_notes) == release_notes

TagMessage(new_version, release_notes) ==
  "Release " \o new_version \o "\n\n" \o release_notes

(***************************************************************************)
(* The inputs the model draws.                                             *)
(***************************************************************************)
StartNow == [year |-> 2024, month |-> 12]

CommitMessages == {"Initial commit", "[skip release] foo"}

Authors == {"Test User"}

ManualTagNames == {"2024.12.4", "v2024.12.0", "2025.01.7", "2024.12", "x1"}

SkipPatternArgs == {None, Some(<<>>), Some(<<"Initial">>)}

FooterArgs == {None, Some("\nCustom footer")}

DryRunEnvValues == {None, Some("true"), Some("TRUE"), Some("false"), Some("invalid")}

MonthIndex(d) == 12 * d.year + d.month - 1

(***************************************************************************)
(* create_release: the outcome of one run from the current state.          *)
(***************************************************************************)
\* variant: dry_run is not looked at
not_dry_run_ignored(dry_run) == TRUE

\* the test of line 69: the mutating steps run when this holds
not_dry_run(dry_run) == ~dry_run

\* the statements of lines 57-67, in the order of the text
Decisions ==
  <<"_is_already_tagged", "_should_skip_release", "_get_new_version",
    "_get_commit_messages_since_last_release", "_format_release_notes">>

\* variant: the tag is created before the last statement of the decisions
StatementOrder_tag_first(n, mutations) ==
  IF Len(mutations) = 0 THEN SubSeq(Decisions, 1, n)
  ELSE SubSeq(Decisions, 1, n - 1) \o <<Head(mutations)>>
         \o <<Decisions[n]>> \o Tail(mutations)

\* the statements a run has completed, in order: the first n of lines 57-67,
\* then those of lines 70-76 that took effect
StatementOrder(n, mutations) == SubSeq(Decisions, 1, n) \o mutations

create_release_run(skip_patterns, footer, dry_run) ==
  LET patterns == PyOr(skip_patterns, DEFAULT_SKIP_PATTERNS)
      foot == PyOr(footer, DEFAULT_FOOTER)
      same == [tags |-> tags, remote |-> remote, sink |-> sink, gitenv |-> gitenv,
               events |-> <<>>, notes |-> ""]
  IN  IF HEAD = 0
      \* no commit yet: git tag --points-at HEAD fails on the unborn HEAD
      THEN same @@ [outcome |-> "raise", ret |-> None, path |-> "Failed",
                    stdout |-> <<>>, steps |-> StatementOrder(0, <<>>)]
      ELSE IF _is_already_tagged
      THEN same @@ [outcome |-> "return", ret |-> None, path |-> "AlreadyTagged",
                    stdout |-> <<"Current commit is already tagged!">>,
                    steps |-> StatementOrder(1, <<>>)]
      ELSE IF _should_skip_release(patterns)
      THEN same @@ [outcome |-> "return", ret |-> None, path |-> "Skipped",
                    stdout |-> <<"Skipping release due to commit message!">>,
                    steps |-> StatementOrder(2, <<>>)]
      ELSE IF _get_new_version.raised
      THEN same @@ [outcome |-> "raise", ret |-> None, path |-> "Failed",
                    stdout |-> <<>>, steps |-> StatementOrder(2, <<>>)]
      ELSE
        LET new_version == _get_new_version.value
            commit_messages == _get_commit_messages_since_last_release
            release_notes == _format_release_notes(commit_messages, new_version, foot)
            tag == [name |-> new_version, commit |-> HEAD,
                    message |-> TagMessage(new_version, release_notes)]
        IN  IF ~not_dry_run(dry_run)
            THEN [same EXCEPT !.notes = release_notes]
                   @@ [outcome |-> "return", ret |-> Some(new_version),
                       path |-> "DryRun", stdout |-> <<>>,
                       steps |-> StatementOrder(5, <<>>)]
            ELSE IF new_version \in TagNamesOf(tags)
            \* _create_tag: the author is set, then git refuses the name
            THEN [same EXCEPT !.notes = release_notes, !.gitenv = _set_author]
                   @@ [outcome |-> "raise", ret |-> None, path |-> "Failed",
                       stdout |-> <<>>, steps |-> StatementOrder(5, <<>>)]
            ELSE IF ~origin_ok
            \* _push_tag raises: the local tag stays
            THEN [tags |-> tags \cup {tag}, remote |-> remote, sink |-> sink,
                  gitenv |-> _set_author, events |-> <<"create_tag">>,
                  notes |-> release_notes, outcome |-> "raise", ret |-> None,
                  path |-> "Failed", stdout |-> <<>>,
                  steps |-> StatementOrder(5, <<"create_tag">>)]
            ELSE LET events == IF environ.GITHUB_OUTPUT
                               THEN <<"create_tag", "push", "sink">>
                               ELSE <<"create_tag", "push">>
                 IN
                 [tags |-> tags \cup {tag}, remote |-> remote \cup {tag},
                  sink |-> IF environ.GITHUB_OUTPUT
                           THEN Append(sink, "version=" \o new_version \o "\n")
                           ELSE sink,
                  gitenv |-> _set_author,
                  events |-> events,
                  notes |-> release_notes, outcome |-> "return",
                  ret |-> Some(new_version), path |-> "Released",
                  stdout |-> <<"Created new tag: " \o new_version>>,
                  steps |-> StatementOrder(5, events)]

\* what a run leaves in `last`: its inputs, its result, where it started
RunRecord(op, skip_patterns, footer, dry_run, r) ==
  [op |-> op, skip_patterns |-> skip_patterns, footer |-> footer,
   dry_run |-> dry_run,
   outcome |-> r.outcome, ret |-> r.ret, path |-> r.path, stdout |-> r.stdout,
   events |-> r.events, steps |-> r.steps, notes |-> r.notes,
   tags0 |-> tags, remote0 |-> remote, sink0 |-> sink]

create_release(skip_patterns, footer, dry_run) ==
  \E r \in {create_release_run(skip_patterns, footer, dry_run)} :
      /\ tags' = r.tags
      /\ remote' = r.remote
      /\ sink' = r.sink
      /\ gitenv' = r.gitenv
      /\ last' = RunRecord("create_release", skip_patterns, footer, dry_run, r)
      /\ UNCHANGED <<commits, now, environ, origin_ok>>

(***************************************************************************)
(* cli: argparse, then create_release with the parsed flags.               *)
(***************************************************************************)
\* args.dry_run: store_true of --dry-run; os.environ is not consulted
args_dry_run(flag_dry_run) == flag_dry_run

cli(flag_skip_pattern, flag_footer, flag_dry_run) ==
  \E dry_run \in {args_dry_run(flag_dry_run)} :
  \E r \in {create_release_run(flag_skip_pattern, flag_footer, dry_run)} :
  LET version == r.ret
      out == IF r.outcome = "return" /\ version.given /\ flag_dry_run
             THEN Append(r.stdout, "Would create new tag: " \o version.val)
             ELSE r.stdout
  IN  /\ tags' = r.tags
      /\ remote' = r.remote
      /\ sink' = r.sink
      /\ gitenv' = r.gitenv
      /\ last' = [RunRecord("cli", flag_skip_pattern, flag_footer, dry_run, r)
                     EXCEPT !.stdout = out]
                   @@ [flag_dry_run |-> flag_dry_run]
      /\ UNCHANGED <<commits, now, environ, origin_ok>>

(***************************************************************************)
(* Direct calls of the helpers, as the tests make them.                    *)
(***************************************************************************)
get_new_version_call ==
  /\ \E r \in {_get_new_version} :
        last' = [op |-> "_get_new_version", raised |-> r.raised, ret |-> r.value]
  /\ UNCHANGED <<commits, tags, remote, sink, now, gitenv, environ, origin_ok>>

\* the lookup of lines 97 and 137 on its own: the tag max() returns, or no
\* tag where max() raises ValueError on the empty sequence
latest_tag_call ==
  /\ \E r \in {IF tags = {} THEN None ELSE Some(latest_tag)} :
        last' = [op |-> "latest_tag", tag |-> r]
  /\ UNCHANGED <<commits, tags, remote, sink, now, gitenv, environ, origin_ok>>

get_commit_messages_call ==
  /\ \E r \in {_get_commit_messages_since_last_release} :
        last' = [op |-> "_get_commit_messages_since_last_release", ret |-> r]
  /\ UNCHANGED <<commits, tags, remote, sink, now, gitenv, environ, origin_ok>>

(***************************************************************************)
(* The environment: new commits, tags made by hand, the calendar.          *)
(***************************************************************************)
Commit(message, ts, author) ==
  /\ Len(commits) < MaxCommits
  /\ commits' = Append(commits, [message |-> message, ts |-> ts, author |-> author])
  /\ last' = [op |-> "commit"]
  /\ UNCHANGED <<tags, remote, sink, now, gitenv, environ, origin_ok>>

\* git tag -a <name> -m "Release <name>" at HEAD
ManualTag(name) ==
  /\ Cardinality(tags) < MaxTags
  /\ name \notin TagNamesOf(tags)
  /\ tags' = tags \cup {[name |-> name, commit |-> HEAD,
                         message |-> "Release " \o name]}
  /\ last' = [op |-> "tag"]
  /\ UNCHANGED <<commits, remote, sink, now, gitenv, environ, origin_ok>>

\* a month passes
Tick ==
  /\ MonthIndex(now) - MonthIndex(StartNow) < MaxTicks
  /\ now' = IF now.month = 12 THEN [year |-> now.year + 1, month |-> 1]
            ELSE [year |-> now.year, month |-> now.month + 1]
  /\ last' = [op |-> "tick"]
  /\ UNCHANGED <<commits, tags, remote, sink, gitenv, environ, origin_ok>>

\* a fresh repository with its first commit, as the tests' fixtures build it
InitRepo ==
  /\ \E m \in CommitMessages, a \in Authors :
        commits = <<[message |-> m, ts |-> 1, author |-> a]>>
  /\ tags = {}
  /\ remote = {}
  /\ sink = <<>>
  /\ now = StartNow
  /\ gitenv = ""
  /\ origin_ok \in BOOLEAN
  /\ last = [op |-> "init"]

(***************************************************************************)
(* Runs of create_release: every argument, with and without GITHUB_OUTPUT, *)
(* with and without a reachable origin, on histories of commits made at    *)
(* one time, one of them possibly tagged by hand.                          *)
(***************************************************************************)
Init ==
  /\ InitRepo
  /\ \E go \in BOOLEAN : environ = [GITHUB_OUTPUT |-> go, CALVER_DRY_RUN |-> None]

Next ==
  \/ \E m \in CommitMessages, a \in Authors : Commit(m, 1, a)
  \/ \E name \in {"2024.12.4"} : ManualTag(name)
  \/ \E sp \in SkipPatternArgs, f \in FooterArgs, d \in BOOLEAN :
        create_release(sp, f, d)

Spec == Init /\ [][Next]_vars

(***************************************************************************)
(* The version calculation: tags of every kind of name on commits of every *)
(* timestamp, as the months pass.                                          *)
(***************************************************************************)
InitVersion ==
  /\ commits \in {<<[message |-> "Initial commit", ts |-> ts, author |-> "Test User"]>> :
                     ts \in 1..MaxTs}
  /\ tags = {}
  /\ remote = {}
  /\ sink = <<>>
  /\ now = StartNow
  /\ gitenv = ""
  /\ origin_ok = TRUE
  /\ environ = [GITHUB_OUTPUT |-> FALSE, CALVER_DRY_RUN |-> None]
  /\ last = [op |-> "init"]

NextVersion ==
  \/ \E ts \in 1..MaxTs : Commit("Second commit", ts, "Test User")
  \/ \E name \in ManualTagNames : ManualTag(name)
  \/ Tick
  \/ get_new_version_call
  \/ latest_tag_call
  \/ get_commit_messages_call

SpecVersion == InitVersion /\ [][NextVersion]_vars

(***************************************************************************)
(* _should_skip_release called on its own: one HEAD message, one list.     *)
(***************************************************************************)
SkipMessages ==
  { "Initial commit",
    "[skip release] foo",
    "Test commit [pre-commit.ci]",
    "Test commit ^up^ Update",
    "[SKIP RELEASE] foo",
    "[skip  release] foo",
    "fix\n[skip release]",
    "fix\n\n[skip release] in the body",
    "[custom-skip] Skip this release\n\nbody",
    "[skip release]\n[custom-skip]",
    "\n[skip release]",
    "" }

SkipPatternLists ==
  { DEFAULT_SKIP_PATTERNS,
    <<>>,
    <<"">>,
    <<"[custom-skip]">>,
    <<"[no-release]", "[skip-ci]">>,
    <<"[skip*]", "skip .* foo">>,
    <<"[skip release]\n[custom-skip]">>,
    <<"commit", "fix">>,
    <<"[Skip Release]", "FIX">> }

should_skip_release_call(skip_patterns) ==
  /\ last' = [op |-> "_should_skip_release", skip_patterns |-> skip_patterns,
              ret |-> _should_skip_release(skip_patterns)]
  /\ UNCHANGED <<commits, tags, remote, sink, now, gitenv, environ, origin_ok>>

InitSkip ==
  /\ \E m \in SkipMessages :
        commits = <<[message |-> m, ts |-> 1, author |-> "Test User"]>>
  /\ tags = {}
  /\ remote = {}
  /\ sink = <<>>
  /\ now = StartNow
  /\ gitenv = ""
  /\ origin_ok = TRUE
  /\ environ = [GITHUB_OUTPUT |-> FALSE, CALVER_DRY_RUN |-> None]
  /\ last = [op |-> "init"]

NextSkip == \E sp \in SkipPatternLists : should_skip_release_call(sp)

SpecSkip == InitSkip /\ [][NextSkip]_vars

(***************************************************************************)
(* _format_release_notes called on its own.  The commit subjects reach it  *)
(* as git log prints them: one per line, no line for no commit.            *)
(***************************************************************************)
SubjectSet == {"First commit", "Second commit"}

RECURSIVE SeqsUpTo(_, _)
SeqsUpTo(S, n) ==
  IF n = 0 THEN {<<>>}
  ELSE LET shorter == SeqsUpTo(S, n - 1)
       IN  shorter \cup {Append(q, x) : q \in shorter, x \in S}

VersionArgs == {"2024.1.0", "2025.12.31"}

FooterTexts == {DEFAULT_FOOTER, "\nCustom footer"}

format_release_notes_call ==
  /\ last.op = "input"
  /\ last' = [last EXCEPT !.op = "_format_release_notes"]
               @@ [ret |-> _format_release_notes(StrJoin("\n", last.subjects),
                                                 last.new_version, last.footer)]
  /\ UNCHANGED <<commits, tags, remote, sink, now, gitenv, environ, origin_ok>>

InitNotes ==
  /\ commits = <<[message |-> "Initial commit", ts |-> 1, author |-> "Test User"]>>
  /\ tags = {}
  /\ remote = {}
  /\ sink = <<>>
  /\ now = StartNow
  /\ gitenv = ""
  /\ origin_ok = TRUE
  /\ environ = [GITHUB_OUTPUT |-> FALSE, CALVER_DRY_RUN |-> None]
  /\ \E subjects \in SeqsUpTo(SubjectSet, MaxSubjects), v \in VersionArgs,
        f \in FooterTexts :
        last = [op |-> "input", subjects |-> subjects, new_version |-> v,
                footer |-> f]

NextNotes == format_release_notes_call

SpecNotes == InitNotes /\ [][NextNotes]_vars

(***************************************************************************)
(* The command line: runs of cli under every value of CALVER_DRY_RUN.      *)
(***************************************************************************)
InitCli ==
  /\ InitRepo
  /\ \E go \in BOOLEAN, e \in DryRunEnvValues :
        environ = [GITHUB_OUTPUT |-> go, CALVER_DRY_RUN |-> e]

NextCli ==
  \/ \E sp \in SkipPatternArgs, f \in FooterArgs, d \in BOOLEAN : cli(sp, f, d)
  \/ \E m \in CommitMessages, a \in Authors : Commit(m, 1, a)

SpecCli == InitCli /\ [][NextCli]_vars

(***************************************************************************)
(* Runs of create_release from git init on: the repository starts without  *)
(* a commit, where the first statement of a run already fails.             *)
(***************************************************************************)
InitOrder ==
  /\ commits = <<>>
  /\ tags = {}
  /\ remote = {}
  /\ sink = <<>>
  /\ now = StartNow
  /\ gitenv = ""
  /\ origin_ok \in BOOLEAN
  /\ \E go \in BOOLEAN : environ = [GITHUB_OUTPUT |-> go, CALVER_DRY_RUN |-> None]
  /\ last = [op |-> "init"]

NextOrder ==
  \/ \E m \in CommitMessages, a \in Authors : Commit(m, 1, a)
  \/ \E sp \in SkipPatternArgs, f \in FooterArgs, d \in BOOLEAN :
        create_release(sp, f, d)

SpecOrder == InitOrder /\ [][NextOrder]_vars

(***************************************************************************)
(* A series of releases in one month: new commits, none earlier than the   *)
(* one before it, and runs of create_release that are not dry runs.  The   *)
(* only tags are those the runs create.                                    *)
(***************************************************************************)
\* a new commit whose timestamp is not before that of its parent
CommitLater(message, ts, author) ==
  /\ Len(commits) < MaxSeries
  /\ ts >= commits[HEAD].ts
  /\ commits' = Append(commits, [message |-> message, ts |-> ts, author |-> author])
  /\ last' = [op |-> "commit"]
  /\ UNCHANGED <<tags, remote, sink, now, gitenv, environ, origin_ok>>

InitSeries ==
  /\ \E m \in CommitMessages, ts \in 1..MaxTs :
        commits = <<[message |-> m, ts |-> ts, author |-> "Test User"]>>
  /\ tags = {}
  /\ remote = {}
  /\ sink = <<>>
  /\ now = StartNow
  /\ gitenv = ""
  /\ origin_ok = TRUE
  /\ \E go \in BOOLEAN : environ = [GITHUB_OUTPUT |-> go, CALVER_DRY_RUN |-> None]
  /\ last = [op |-> "init"]

NextSeries ==
  \/ \E m \in CommitMessages, ts \in 1..MaxTs : CommitLater(m, ts, "Test User")
  \/ create_release(None, None, FALSE)

SpecSeries == InitSeries /\ [][NextSeries]_vars

(***************************************************************************)
(* Vocabulary of the properties.                                           *)
(***************************************************************************)
\* the string "Y.M.P"
CalVer(y, m, p) == IntToStr(y) \o "." \o IntToStr(m) \o "." \o IntToStr(p)

\* the tags whose target commit has the maximum commit timestamp
LatestByTime == {t \in tags : \A u \in tags : commits[u.commit].ts <= commits[t.commit].ts}

\* the name is three integers, with or without a leading v
IsThreeInts(name) == version_parse(name).ok /\ Len(version_parse(name).release) = 3

\* the text before the first newline
FirstLine(message) ==
  IF \E k \in 1..Len(message) : CharAt(message, k) = "\n"
  THEN SubSeq(message, 1,
              (CHOOSE k \in 1..Len(message) :
                  /\ CharAt(message, k) = "\n"
                  /\ \A j \in 1..(k - 1) : CharAt(message, j) # "\n") - 1)
  ELSE message

\* p occurs in s, character for character
LiteralSubstring(p, s) ==
  \E a \in 0..Len(s), b \in 0..Len(s) :
     /\ a + Len(p) + b = Len(s)
     /\ SubSeq(s, a + 1, a + Len(p)) = p

MatchesAny(patterns, line) ==
  \E i \in 1..Len(patterns) : LiteralSubstring(patterns[i], line)

\* the list in force when a supplied list replaces the default one
SuppliedOrDefault(skip_patterns) ==
  IF skip_patterns.given THEN skip_patterns.val ELSE DEFAULT_SKIP_PATTERNS

HeadWasTagged == \E t \in last.tags0 : t.commit = HEAD

NothingChanged ==
  /\ tags = last.tags0
  /\ remote = last.remote0
  /\ sink = last.sink0

C2_PatchContinuesOrResets ==
  (/\ last.op = "_get_new_version"
   /\ tags # {}
   /\ \A t \in LatestByTime : IsThreeInts(t.name)) =>
     /\ ~last.raised
     /\ \E t \in LatestByTime :
           LET v == version_parse(t.name).release
           IN  last.ret = CalVer(now.year, now.month,
                                 IF v[1] = now.year /\ v[2] = now.month
                                 THEN v[3] + 1 ELSE 0)

C2_Witness ==
  /\ last.op = "_get_new_version"
  /\ TagNamesOf(tags) = {"2024.12.4"}
  /\ last.ret = "2024.12.5"

(***************************************************************************)
(* C3: _should_skip_release returns true exactly when some pattern of the  *)
(* list is a literal, case-sensitive substring of the first line of HEAD's *)
(* message; the result is a function of the first line and the list, so    *)
(* later lines cannot change it.                                           *)
(***************************************************************************)
C3_SkipIffPatternInFirstLine ==
  (last.op = "_should_skip_release") =>
     (last.ret <=> MatchesAny(last.skip_patterns, FirstLine(commits[HEAD].message)))

C3_Witness ==
  /\ last.op = "_should_skip_release"
  /\ commits[HEAD].message = "fix\n\n[skip release] in the body"
  /\ last.skip_patterns = DEFAULT_SKIP_PATTERNS
  /\ ~last.ret

(***************************************************************************)
(* C4: a run with dry_run = True on an untagged HEAD that is not skipped   *)
(* returns the computed next version and leaves the local tags, the tags   *)
(* of the remote and the GITHUB_OUTPUT file as they were.                  *)
(***************************************************************************)
C4_DryRunChangesNothing ==
  (/\ last.op = "create_release"
   /\ last.dry_run
   /\ ~HeadWasTagged
   /\ last.path # "Skipped") =>
     /\ last.outcome = "return"
     /\ last.ret = Some(_get_new_version.value)
     /\ NothingChanged

C4_Witness ==
  /\ last.op = "create_release"
  /\ last.dry_run
  /\ ~HeadWasTagged
  /\ last.path # "Skipped"
  /\ last.ret = Some("2024.12.5")
  /\ environ.GITHUB_OUTPUT
  /\ origin_ok

(***************************************************************************)
(* C5: when a tag points at HEAD, or the first line of HEAD's message      *)
(* contains a pattern of the list in force, create_release returns None,   *)
(* with dry_run or without, and creates no tag, pushes nothing and writes  *)
(* no line to the GITHUB_OUTPUT file.                                      *)
(***************************************************************************)
C5_TaggedOrSkippedDoesNothing ==
  (/\ last.op = "create_release"
   /\ \/ HeadWasTagged
      \/ MatchesAny(SuppliedOrDefault(last.skip_patterns),
                    FirstLine(commits[HEAD].message))) =>
     /\ last.outcome = "return"
     /\ last.ret = None
     /\ NothingChanged

C5_Witness ==
  /\ last.op = "create_release"
  /\ HeadWasTagged
  /\ ~last.dry_run
  /\ origin_ok
  /\ ~MatchesAny(DEFAULT_SKIP_PATTERNS, FirstLine(commits[HEAD].message))
  /\ last.skip_patterns = None

(***************************************************************************)
(* C6: a run that is not a dry run and returns a version V has added       *)
(* exactly one tag: its name is V, it points at HEAD, its message is       *)
(* "Release V", a blank line and the release notes, and it is on the       *)
(* remote; when GITHUB_OUTPUT is set exactly one line "version=V" has been *)
(* appended to the file, and otherwise none.                               *)
(***************************************************************************)
C6_ReleasedAddsOneTag ==
  (/\ last.op = "create_release"
   /\ ~last.dry_run
   /\ last.outcome = "return"
   /\ last.ret.given) =>
     LET V == last.ret.val
         tag == [name |-> V, commit |-> HEAD,
                 message |-> "Release " \o V \o "\n\n" \o last.notes]
     IN  /\ ~HeadWasTagged
         /\ V \notin TagNamesOf(last.tags0)
         /\ tags = last.tags0 \cup {tag}
         /\ remote = last.remote0 \cup {tag}
         /\ sink = IF environ.GITHUB_OUTPUT
                   THEN Append(last.sink0, "version=" \o V \o "\n")
                   ELSE last.sink0

C6_Witness ==
  /\ last.op = "create_release"
  /\ ~last.dry_run
  /\ last.outcome = "return"
  /\ last.ret = Some("2024.12.1")
  /\ environ.GITHUB_OUTPUT
  /\ Len(sink) = 2

(***************************************************************************)
(* C7: a supplied pattern list replaces the default list: when the first   *)
(* line of HEAD's message contains a default pattern and none of the       *)
(* supplied ones, create_release does not skip the run.                    *)
(***************************************************************************)
C7_SuppliedListReplacesDefault ==
  (/\ last.op = "create_release"
   /\ ~HeadWasTagged
   /\ last.skip_patterns.given
   /\ MatchesAny(DEFAULT_SKIP_PATTERNS, FirstLine(commits[HEAD].message))
   /\ ~MatchesAny(last.skip_patterns.val, FirstLine(commits[HEAD].message))) =>
     last.path # "Skipped"

(***************************************************************************)
(* C8: the notes are the header with the version, the intro, one line      *)
(* "- subject" per commit subject in the order given and nothing else,     *)
(* then the footer.                                                        *)
(***************************************************************************)
C8_OneBulletPerSubject ==
  (last.op = "_format_release_notes") =>
     last.ret = "^rocket^ Release " \o last.new_version \o "\n\n"
                  \o "^memo^ This release includes the following changes:\n\n"
                  \o StrJoin("\n", [i \in 1..Len(last.subjects) |->
                                       "- " \o last.subjects[i]])
                  \o last.footer

LowerChar(c) ==
  IF c = "T" THEN "t" ELSE IF c = "R" THEN "r" ELSE IF c = "U" THEN "u"
  ELSE IF c = "E" THEN "e" ELSE c

RECURSIVE Lower(_)
Lower(s) == IF Len(s) = 0 THEN "" ELSE LowerChar(CharAt(s, 1)) \o Lower(Tail(s))

EnvSaysDryRun ==
  environ.CALVER_DRY_RUN.given /\ Lower(environ.CALVER_DRY_RUN.val) = "true"

C10_DryRunFromEnvironment ==
  (last.op = "cli") =>
     /\ last.dry_run = (last.flag_dry_run \/ EnvSaysDryRun)
     /\ (last.flag_dry_run \/ EnvSaysDryRun) => tags = last.tags0

(***************************************************************************)
(* C11: in every run of create_release the mutating steps are the tag      *)
(* creation, then the push, then the write to the GITHUB_OUTPUT file, in   *)
(* that order; they happen only in a run that is not a dry run on a HEAD   *)
(* that was not tagged and is not skipped, and only after the tagged       *)
(* check, the skip check, the version computation, the commit log and the  *)
(* notes formatting have all completed; the tags, the remote and the file  *)
(* change only through these steps, so a run that fails before all five    *)
(* computations are done leaves the three as they were.                    *)
(***************************************************************************)
MutatingSteps == <<"create_tag", "push", "sink">>

ComputationSteps ==
  {"_is_already_tagged", "_should_skip_release", "_get_new_version",
   "_get_commit_messages_since_last_release", "_format_release_notes"}

IsMutatingStep(x) == \E k \in 1..Len(MutatingSteps) : MutatingSteps[k] = x

MutationsOf(steps) == SelectSeq(steps, IsMutatingStep)

C11_MutationsComeLast ==
  (last.op = "create_release") =>
     LET steps == last.steps
         done == MutationsOf(steps)
     IN  /\ \A i \in 1..Len(steps) :
               IsMutatingStep(steps[i]) =>
                  \A c \in ComputationSteps : \E j \in 1..(i - 1) : steps[j] = c
         /\ Len(done) <= Len(MutatingSteps)
         /\ done = SubSeq(MutatingSteps, 1, Len(done))
         /\ done # <<>> =>
               /\ ~last.dry_run
               /\ ~HeadWasTagged
               /\ last.path \notin {"AlreadyTagged", "Skipped", "DryRun"}
         /\ tags # last.tags0 => \E i \in 1..Len(done) : done[i] = "create_tag"
         /\ remote # last.remote0 => \E i \in 1..Len(done) : done[i] = "push"
         /\ sink # last.sink0 => \E i \in 1..Len(done) : done[i] = "sink"
         /\ (/\ last.outcome = "raise"
             /\ \E c \in ComputationSteps : \A j \in 1..Len(steps) : steps[j] # c) =>
               NothingChanged

C11_Witness ==
  /\ last.op = "create_release"
  /\ last.outcome = "return"
  /\ Len(last.steps) = 8
  /\ MutationsOf(last.steps) = MutatingSteps
  /\ Cardinality(tags) = 2
  /\ Len(sink) = 2

\* a run that failed in its first computation
C11_FailedComputation ==
  /\ last.op = "create_release"
  /\ last.outcome = "raise"
  /\ last.steps = <<>>
  /\ ~last.dry_run

(***************************************************************************)
(* C12 as stated: the latest tag is a tag whose target commit has the      *)
(* maximum commit timestamp; among several such tags it is the one that    *)
(* comes last in the enumeration of the tags; with no tags the lookup      *)
(* gives no tag and does not fail.  The commit log starts after the commit *)
(* of that tag.                                                            *)
(***************************************************************************)
EnumIndex(t) ==
  CHOOSE i \in 1..Len(repo_tags(tags)) : repo_tags(tags)[i] = t

LastOfLatest ==
  CHOOSE t \in LatestByTime : \A u \in LatestByTime : EnumIndex(u) <= EnumIndex(t)

FirstOfLatest ==
  CHOOSE t \in LatestByTime : \A u \in LatestByTime : EnumIndex(t) <= EnumIndex(u)

\* the subjects of the commits after commit number from, newest first
SubjectsAfter(from) ==
  [i \in 1..(Len(commits) - from) |-> Subject(commits[Len(commits) - i + 1].message)]

C12_NoTag ==
  /\ last.op = "latest_tag"
  /\ tags = {}
  /\ last.tag = None

(***************************************************************************)
(* C13: when the commit log handed to _format_release_notes has no subject *)
(* (git log printed nothing), formatting does not fail and the notes have  *)
(* no bullet line: they are the header, the intro and the footer.          *)
(***************************************************************************)
C13_EmptyLogGivesNoBullet ==
  (last.op = "_format_release_notes" /\ last.subjects = <<>>) =>
     /\ last.ret = "^rocket^ Release " \o last.new_version \o "\n\n"
                     \o "^memo^ This release includes the following changes:\n\n"
                     \o last.footer
     /\ ~StrIn("\n- ", last.ret)

\* git log prints nothing: the latest tag is at HEAD
C13_EmptyLog ==
  /\ last.op = "_get_commit_messages_since_last_release"
  /\ tags # {}
  /\ last.ret = ""

(***************************************************************************)
(* C14: in a series of releases that starts without tags and stays in one  *)
(* month, every run of create_release that is not a dry run, on a HEAD     *)
(* that was not tagged and is not skipped, creates a tag whose name no     *)
(* tag had before: the k-th tag created has patch number k - 1, and the    *)
(* run does not fail on a name that is already taken.                      *)
(***************************************************************************)
C14_ReleaseNamesAreFresh ==
  (/\ last.op = "create_release"
   /\ ~last.dry_run
   /\ ~HeadWasTagged
   /\ last.path # "Skipped") =>
     /\ last.outcome = "return"
     /\ last.ret = Some(CalVer(now.year, now.month, Cardinality(last.tags0)))
     /\ last.ret.val \notin TagNamesOf(last.tags0)
     /\ TagNamesOf(tags) = TagNamesOf(last.tags0) \cup {last.ret.val}

\* the run that fails: the name it computed is the name of an existing tag
C14_Collision ==
  /\ last.op = "create_release"
  /\ last.outcome = "raise"
  /\ TagNamesOf(tags) = {"2024.12.0", "2024.12.1"}
  /\ _get_new_version.value = "2024.12.1"
  /\ \A i \in 1..Len(commits) : commits[i].ts = 1
====
